---- MODULE Spec2Model ----
(***************************************************************************)
(* BourseNews (src/boursenews.py): the ingestion pipeline of main -- fetch *)
(* each configured feed, skip the candidates already in the store,         *)
(* annotate and persist the others, then rebuild the reports -- together   *)
(* with the pure helpers it rests on (norm_text, stable_id, fetch_feed,    *)
(* the reply normalisation of analyze_with_openai, load_all_items).        *)
(*                                                                         *)
(* Text is a sequence of one-character strings.  A model reply is a        *)
(* sequence of lexemes: single characters, and JSON members written as one *)
(* lexeme each ("score:2"), decoded by the table Member.                   *)
(***************************************************************************)
EXTENDS Integers, Sequences, FiniteSets, TLC

(***************************************************************************)
(* Bounds of the model.                                                    *)
(***************************************************************************)
NumFeeds == 2
MaxRuns == 2
MaxExtra == 2

(***************************************************************************)
(* Program constants.                                                      *)
(***************************************************************************)
MAX_ITEMS_PER_FEED == 10
LoadLimit == 200
SummaryTop == 10
MaxKeyLinks == 3
MaxMarkets == 5
ConfiguredFeeds == 16

(***************************************************************************)
(* Text helpers.                                                           *)
(***************************************************************************)
Whitespace == {" ", "\t", "\n"}

Min(a, b) == IF a <= b THEN a ELSE b

\* s[:n]
Take(s, n) == SubSeq(s, 1, Min(n, Len(s)))

RECURSIVE LStrip(_)
LStrip(s) ==
    IF s # <<>> /\ Head(s) \in Whitespace THEN LStrip(Tail(s)) ELSE s

RECURSIVE RStrip(_)
RStrip(s) ==
    IF s # <<>> /\ s[Len(s)] \in Whitespace
    THEN RStrip(SubSeq(s, 1, Len(s) - 1))
    ELSE s

\* str.strip()
Strip(s) == RStrip(LStrip(s))

\* re.sub(r"\s+", " ", s): every maximal run of whitespace becomes one space
RECURSIVE Collapse(_)
Collapse(s) ==
    IF s = <<>> THEN <<>>
    ELSE IF Head(s) \in Whitespace
         THEN <<" ">> \o Collapse(LStrip(s))
         ELSE <<Head(s)>> \o Collapse(Tail(s))

norm_text(s) == Strip(Collapse(s))

\* the text that is hashed; sha256 is taken to be injective, so the
\* fingerprint is identified with the text it digests
stable_id(feed_name, title, link) ==
    feed_name \o <<"|", "|">> \o title \o <<"|", "|">> \o link

(***************************************************************************)
(* fetch_feed.  A feed entry is a record of the attributes the code reads; *)
(* an attribute the entry lacks is the empty text (getattr's default).     *)
(***************************************************************************)
Or(a, b) == IF a # <<>> THEN a ELSE b

Candidate(feed_name, e) ==
    [feed_name |-> feed_name,
     title     |-> norm_text(e.title),
     link      |-> norm_text(e.link),
     summary   |-> norm_text(Or(e.summary, e.description)),
     published |-> norm_text(Or(e.published, e.updated)),
     id        |-> stable_id(feed_name, norm_text(e.title), norm_text(e.link))]

RECURSIVE Candidates(_, _)
Candidates(feed_name, entries) ==
    IF entries = <<>> THEN <<>>
    ELSE LET c == Candidate(feed_name, Head(entries))
         IN  IF c.title = <<>> \/ c.link = <<>>
             THEN Candidates(feed_name, Tail(entries))
             ELSE <<c>> \o Candidates(feed_name, Tail(entries))

\* the cut taken after the entries without title or link were dropped
fetch_feed_cut_late(feed_name, entries) ==
    Take(Candidates(feed_name, entries), MAX_ITEMS_PER_FEED)

fetch_feed(feed_name, entries) ==
    Candidates(feed_name, Take(entries, MAX_ITEMS_PER_FEED))

(***************************************************************************)
(* The reply of the model and its normalisation (analyze_with_openai).     *)
(* Members decodes the lexemes that stand for one JSON member each: its    *)
(* key, the type of its value, str(value) as text, and for a list the      *)
(* str() of its elements.                                                  *)
(***************************************************************************)
Members ==
    << [lex |-> "score:2",     key |-> "score", typ |-> "int",   txt |-> <<"2">>,    items |-> <<>>],
       [lex |-> "score:-1",    key |-> "score", typ |-> "int",   txt |-> <<"-1">>,   items |-> <<>>],
       [lex |-> "score:3",     key |-> "score", typ |-> "int",   txt |-> <<"3">>,    items |-> <<>>],
       [lex |-> "score:-3",    key |-> "score", typ |-> "int",   txt |-> <<"-3">>,   items |-> <<>>],
       [lex |-> "score:1.7",   key |-> "score", typ |-> "float", txt |-> <<"1.7">>,  items |-> <<>>],
       [lex |-> "score:7.5",   key |-> "score", typ |-> "float", txt |-> <<"7.5">>,  items |-> <<>>],
       [lex |-> "score:'-2'",  key |-> "score", typ |-> "str",   txt |-> <<" ", "-2">>, items |-> <<>>],
       [lex |-> "score:'abc'", key |-> "score", typ |-> "str",   txt |-> <<"abc">>,  items |-> <<>>],
       [lex |-> "score:null",  key |-> "score", typ |-> "null",  txt |-> <<"None">>, items |-> <<>>],
       [lex |-> "score:true",  key |-> "score", typ |-> "bool",  txt |-> <<"True">>, items |-> <<>>],
       [lex |-> "score:[]",    key |-> "score", typ |-> "list",  txt |-> <<"[]">>,   items |-> <<>>],
       [lex |-> "sentiment:Positive", key |-> "sentiment", typ |-> "str",  txt |-> <<"Positive", " ">>, items |-> <<>>],
       [lex |-> "sentiment:negative", key |-> "sentiment", typ |-> "str",  txt |-> <<"negative">>, items |-> <<>>],
       [lex |-> "sentiment:bullish",  key |-> "sentiment", typ |-> "str",  txt |-> <<"bullish">>,  items |-> <<>>],
       [lex |-> "sentiment:null",     key |-> "sentiment", typ |-> "null", txt |-> <<"None">>,     items |-> <<>>],
       [lex |-> "sentiment:NEUTRAL",  key |-> "sentiment", typ |-> "str",  txt |-> <<"NEUTRAL">>,  items |-> <<>>],
       [lex |-> "sentiment:5",        key |-> "sentiment", typ |-> "int",  txt |-> <<"5">>,        items |-> <<>>],
       [lex |-> "priority:Medium",    key |-> "priority",  typ |-> "str",  txt |-> <<" ", "Medium", "\n">>, items |-> <<>>],
       [lex |-> "priority:true",      key |-> "priority",  typ |-> "bool", txt |-> <<"True">>,     items |-> <<>>],
       [lex |-> "priority:HIGH",      key |-> "priority",  typ |-> "str",  txt |-> <<"HIGH">>,     items |-> <<>>],
       [lex |-> "priority:critical",  key |-> "priority",  typ |-> "str",  txt |-> <<"critical">>, items |-> <<>>],
       [lex |-> "priority:urgent",    key |-> "priority",  typ |-> "str",  txt |-> <<"urgent">>,   items |-> <<>>],
       [lex |-> "priority:null",      key |-> "priority",  typ |-> "null", txt |-> <<"None">>,     items |-> <<>>],
       [lex |-> "ai_summary:text",    key |-> "ai_summary", typ |-> "str", txt |-> <<"Analyse", " ", " ", "courte">>, items |-> <<>>],
       [lex |-> "ai_summary:blank",   key |-> "ai_summary", typ |-> "str", txt |-> <<" ">>,        items |-> <<>>],
       [lex |-> "investor_takeaway:text", key |-> "investor_takeaway", typ |-> "str", txt |-> <<"Pourquoi">>, items |-> <<>>],
       [lex |-> "publisher:Reuters",  key |-> "publisher", typ |-> "str",  txt |-> <<"Reuters">>,  items |-> <<>>],
       [lex |-> "publisher:blank",    key |-> "publisher", typ |-> "str",  txt |-> <<" ">>,        items |-> <<>>],
       [lex |-> "market_bias:Bullish", key |-> "market_bias", typ |-> "str", txt |-> <<"Bullish">>, items |-> <<>>],
       [lex |-> "markets_impacted:7", key |-> "markets_impacted", typ |-> "list", txt |-> <<"[...]">>,
        items |-> << <<"Oil">>, <<" ">>, <<"USD">>, <<>>, <<"Nasdaq", " ", " ", "100">>, <<"Bunds">>,
                     <<"Gold">>, <<"CAC">>, <<"\t">> >>],
       [lex |-> "markets_impacted:2", key |-> "markets_impacted", typ |-> "list", txt |-> <<"[...]">>,
        items |-> << <<" ">>, <<"Oil">> >>],
       [lex |-> "markets_impacted:str", key |-> "markets_impacted", typ |-> "str", txt |-> <<"Oil">>, items |-> <<>>],
       [lex |-> "key_links:4",  key |-> "key_links", typ |-> "list", txt |-> <<"[...]">>,
        items |-> << <<"taux">>, <<" ">>, <<"Fed", " ", " ", "pivot">>, <<"risk-on">> >>],
       [lex |-> "key_links:1",  key |-> "key_links", typ |-> "list", txt |-> <<"[...]">>,
        items |-> << <<"taux">> >>],
       [lex |-> "key_links:null", key |-> "key_links", typ |-> "null", txt |-> <<"None">>, items |-> <<>>] >>

MemberLexemes == {Members[i].lex : i \in DOMAIN Members}

Member(lex) == Members[CHOOSE i \in DOMAIN Members : Members[i].lex = lex]

\* str.lower(), lexeme by lexeme
LowerLexeme(l) ==
    CASE l = "Positive" -> "positive"
      [] l = "HIGH"     -> "high"
      [] l = "Bullish"  -> "bullish"
      [] l = "NEUTRAL"  -> "neutral"
      [] l = "Medium"   -> "medium"
      [] l = "True"     -> "true"
      [] OTHER          -> l

lower(s) == [i \in DOMAIN s |-> LowerLexeme(s[i])]

\* the lexemes Python's int() reads as an integer literal
IntLiterals == {"-3", "-2", "-1", "0", "1", "2", "3"}

IntLiteral(l) ==
    CASE l = "-3" -> 0 - 3
      [] l = "-2" -> 0 - 2
      [] l = "-1" -> 0 - 1
      [] l = "0"  -> 0
      [] l = "1"  -> 1
      [] l = "2"  -> 2
      [] l = "3"  -> 3

\* int(float): truncation towards zero
FloatTrunc(l) ==
    CASE l = "1.7" -> 1
      [] l = "7.5" -> 7

\* re.search(r"\{[\s\S]*?\}", text): from the first "{" to the first "}" after
\* it; <<>> when there is no match
RECURSIVE IndexFrom(_, _, _)
IndexFrom(s, c, i) ==
    IF i > Len(s) THEN 0
    ELSE IF s[i] = c THEN i ELSE IndexFrom(s, c, i + 1)

\* the last block instead of the first
search_last(text) ==
    LET j == CHOOSE k \in 0..Len(text) :
                /\ k > 0 => text[k] = "}"
                /\ \A l \in (k + 1)..Len(text) : text[l] # "}"
        i == CHOOSE k \in 0..Len(text) :
                /\ k > 0 => (text[k] = "{" /\ k < j)
                /\ \A l \in (k + 1)..(j - 1) : text[l] # "{"
    IN  IF i = 0 \/ j = 0 THEN <<>> ELSE SubSeq(text, i, j)

search(text) ==
    LET i == IndexFrom(text, "{", 1)
        j == IF i = 0 THEN 0 ELSE IndexFrom(text, "}", i + 1)
    IN  IF i = 0 \/ j = 0 THEN <<>> ELSE SubSeq(text, i, j)

RECURSIVE DropWhitespace(_)
DropWhitespace(s) ==
    IF s = <<>> THEN <<>>
    ELSE IF Head(s) \in Whitespace THEN DropWhitespace(Tail(s))
         ELSE <<Head(s)>> \o DropWhitespace(Tail(s))

\* member ("," member)*
RECURSIVE IsMemberList(_)
IsMemberList(s) ==
    /\ s # <<>>
    /\ Head(s) \in MemberLexemes
    /\ \/ Len(s) = 1
       \/ /\ Len(s) >= 3
          /\ s[2] = ","
          /\ IsMemberList(Tail(Tail(s)))

RECURSIVE DecodeMembers(_)
DecodeMembers(s) ==
    IF s = <<>> THEN <<>>
    ELSE IF Head(s) = "," THEN DecodeMembers(Tail(s))
         ELSE <<Member(Head(s))>> \o DecodeMembers(Tail(s))

\* json.loads(block): ok = FALSE stands for the exception
json_loads(block) ==
    LET inner == DropWhitespace(SubSeq(block, 2, Len(block) - 1))
    IN  IF inner = <<>> \/ IsMemberList(inner)
        THEN [ok |-> TRUE, data |-> DecodeMembers(inner)]
        ELSE [ok |-> FALSE, data |-> <<>>]

\* key in data; data[key] (a repeated key keeps its last value)
Has(data, key) == \E i \in DOMAIN data : data[i].key = key

Lookup(data, key) ==
    data[CHOOSE i \in DOMAIN data :
            /\ data[i].key = key
            /\ \A j \in DOMAIN data : data[j].key = key => j <= i]

get_str(data, key, default) ==
    IF ~Has(data, key) THEN norm_text(default)
    ELSE IF Lookup(data, key).typ = "null" THEN default
         ELSE norm_text(Lookup(data, key).txt)

\* int(v): ok = FALSE stands for TypeError / ValueError
int(v) ==
    CASE v.typ = "int"   -> [ok |-> TRUE, val |-> IntLiteral(v.txt[1])]
      [] v.typ = "float" -> [ok |-> TRUE, val |-> FloatTrunc(v.txt[1])]
      [] v.typ = "bool"  -> [ok |-> TRUE, val |-> IF v.txt = <<"True">> THEN 1 ELSE 0]
      [] v.typ = "str"   ->
            LET t == Strip(v.txt)
            IN  IF Len(t) = 1 /\ t[1] \in IntLiterals
                THEN [ok |-> TRUE, val |-> IntLiteral(t[1])]
                ELSE [ok |-> FALSE, val |-> 0]
      [] OTHER           -> [ok |-> FALSE, val |-> 0]

ScoreDomain == {0 - 2, 0 - 1, 0, 1, 2}

\* the range check left out
ScoreOf_unchecked(data) ==
    IF ~Has(data, "score") THEN 0
    ELSE IF int(Lookup(data, "score")).ok THEN int(Lookup(data, "score")).val
         ELSE 0

ScoreOf(data) ==
    LET raw == IF ~Has(data, "score") THEN 0
               ELSE IF int(Lookup(data, "score")).ok
                    THEN int(Lookup(data, "score")).val
                    ELSE 0
    IN  IF raw \in ScoreDomain THEN raw ELSE 0

\* the value of the reply kept whatever it is
PriorityOf_unchecked(data) == lower(get_str(data, "priority", <<"low">>))

PriorityOf(data) ==
    LET priority == lower(get_str(data, "priority", <<"low">>))
    IN  IF priority \in {<<"critical">>, <<"high">>, <<"medium">>, <<"low">>}
        THEN priority ELSE <<"low">>

SentimentOf(data) ==
    LET sentiment == lower(get_str(data, "sentiment", <<"neutral">>))
    IN  IF sentiment \in {<<"positive">>, <<"negative">>, <<"neutral">>}
        THEN sentiment ELSE <<"neutral">>

ListOf(data, key) ==
    IF Has(data, key) /\ Lookup(data, key).typ = "list"
    THEN Lookup(data, key).items
    ELSE <<>>

NormAll(xs) == [i \in DOMAIN xs |-> norm_text(xs[i])]

RECURSIVE NonBlank(_)
NonBlank(xs) ==
    IF xs = <<>> THEN <<>>
    ELSE IF Strip(Head(xs)) # <<>>
         THEN <<norm_text(Head(xs))>> \o NonBlank(Tail(xs))
         ELSE NonBlank(Tail(xs))

KeyLinksOf(data) == Take(NormAll(ListOf(data, "key_links")), MaxKeyLinks)

\* the cut taken before the blank entries are dropped
MarketsOf_cut_first(data) ==
    NonBlank(Take(ListOf(data, "markets_impacted"), MaxMarkets))

MarketsOf(data) == Take(NonBlank(ListOf(data, "markets_impacted")), MaxMarkets)

Fallback(text) ==
    [ai_summary |-> text, sentiment |-> <<"neutral">>, score |-> 0, bullets |-> <<>>]

Normalised(item, data) ==
    LET investor_takeaway == get_str(data, "investor_takeaway", <<>>)
        ai_summary == get_str(data, "ai_summary", <<>>)
    IN  [priority              |-> PriorityOf(data),
         publication_freshness |-> lower(get_str(data, "publication_freshness", <<"recent">>)),
         ai_summary            |-> IF ai_summary # <<>> THEN ai_summary
                                   ELSE Or(investor_takeaway, item.summary),
         market_bias           |-> lower(get_str(data, "market_bias", <<"neutral">>)),
         sentiment             |-> SentimentOf(data),
         score                 |-> ScoreOf(data),
         time_horizon          |-> get_str(data, "time_horizon", <<>>),
         confidence_level      |-> get_str(data, "confidence_level", <<>>),
         key_links             |-> KeyLinksOf(data),
         investor_takeaway     |-> investor_takeaway,
         publisher             |-> Or(get_str(data, "publisher", <<>>), item.feed_name),
         markets_impacted      |-> MarketsOf(data)]

\* analyze_with_openai once the service has replied with the text reply
analyze_with_openai(item, reply) ==
    LET text == Strip(reply)
        m == search(text)
    IN  IF m = <<>> THEN Fallback(text)
        ELSE IF ~json_loads(m).ok THEN Fallback(text)
             ELSE Normalised(item, json_loads(m).data)

(***************************************************************************)
(* get_api_key.  The environment of a run: the variable OPENAI_API_KEY     *)
(* (set or not) and the file .env (present or not, as its lines).          *)
(***************************************************************************)
\* str.strip(chars)
RECURSIVE StripChars(_, _)
StripChars(s, chars) ==
    IF s # <<>> /\ Head(s) \in chars THEN StripChars(Tail(s), chars)
    ELSE IF s # <<>> /\ s[Len(s)] \in chars
         THEN StripChars(SubSeq(s, 1, Len(s) - 1), chars)
         ELSE s

\* the first line of .env that starts with OPENAI_API_KEY=
RECURSIVE DotenvKey(_)
DotenvKey(lines) ==
    IF lines = <<>> THEN [ok |-> FALSE, key |-> <<>>]
    ELSE LET line == Strip(Head(lines))
         IN  IF line = <<>> \/ Head(line) = "#" THEN DotenvKey(Tail(lines))
             ELSE IF Head(line) = "OPENAI_API_KEY="
                  THEN [ok |-> TRUE, key |-> StripChars(StripChars(Strip(Tail(line)), {"\""}), {"'"})]
                  ELSE DotenvKey(Tail(lines))

\* ok = FALSE stands for the RuntimeError
get_api_key(environ) ==
    IF environ.env_set /\ environ.env_val # <<>>
    THEN [ok |-> TRUE, key |-> Strip(environ.env_val)]
    ELSE IF environ.dotenv_exists THEN DotenvKey(environ.dotenv)
         ELSE [ok |-> FALSE, key |-> <<>>]

Environments ==
    { [env_set |-> TRUE,  env_val |-> <<"sk-1", " ">>, dotenv_exists |-> FALSE, dotenv |-> <<>>],
      [env_set |-> FALSE, env_val |-> <<>>, dotenv_exists |-> FALSE, dotenv |-> <<>>],
      [env_set |-> TRUE,  env_val |-> <<>>, dotenv_exists |-> TRUE,
       dotenv |-> << <<"#", "OPENAI_API_KEY=", "old">>, <<>>, <<"OTHER=", "v">> >>],
      [env_set |-> FALSE, env_val |-> <<>>, dotenv_exists |-> TRUE,
       dotenv |-> << <<" ">>, <<"OPENAI_API_KEY=", "\"", "sk-1", "\"", " ">>,
                     <<"OPENAI_API_KEY=", "sk-2">> >>] }

(***************************************************************************)
(* The store: the table items as the sequence of its rows in rowid order.  *)
(***************************************************************************)
seen_never(rows, item_id) == FALSE

seen(rows, item_id) == \E i \in DOMAIN rows : rows[i].id = item_id

json_dumps(xs) == [json |-> xs]

json_loads_column(col) == col.json

\* INSERT OR REPLACE: a row with the same primary key is deleted first
Without(rows, item_id) == SelectSeq(rows, LAMBDA r : r.id # item_id)

\* the values save_item binds to the columns
StoredRow(row) ==
       [id |-> row.id, feed_name |-> row.feed_name, title |-> row.title,
        link |-> row.link, published |-> row.published, summary |-> row.summary,
        ai_summary |-> row.ai_summary, sentiment |-> row.sentiment,
        score |-> row.score, created_at |-> row.created_at,
        priority |-> row.priority,
        publication_freshness |-> row.publication_freshness,
        market_bias |-> row.market_bias, time_horizon |-> row.time_horizon,
        confidence_level |-> row.confidence_level,
        key_links |-> json_dumps(row.key_links),
        investor_takeaway |-> row.investor_takeaway,
        publisher |-> row.publisher,
        markets_impacted |-> json_dumps(row.markets_impacted)]

\* the write never reaches the file
save_item_lost(rows, row) == rows

save_item(rows, row) == Without(rows, row.id) \o <<StoredRow(row)>>

\* analysis.get(key, default)
Get(analysis, key, default) ==
    IF key \in DOMAIN analysis THEN analysis[key] ELSE default

\* the row main builds from a candidate and its analysis
Row(it, analysis, created_at) ==
    [id |-> it.id, feed_name |-> it.feed_name, title |-> it.title,
     link |-> it.link, published |-> it.published, summary |-> it.summary,
     ai_summary |-> Get(analysis, "ai_summary", <<>>),
     sentiment |-> Get(analysis, "sentiment", <<"neutral">>),
     score |-> Get(analysis, "score", 0),
     priority |-> Get(analysis, "priority", <<"low">>),
     publication_freshness |-> Get(analysis, "publication_freshness", <<"ancien">>),
     market_bias |-> Get(analysis, "market_bias", <<"neutral">>),
     time_horizon |-> Get(analysis, "time_horizon", <<>>),
     confidence_level |-> Get(analysis, "confidence_level", <<>>),
     key_links |-> Get(analysis, "key_links", <<>>),
     investor_takeaway |-> Get(analysis, "investor_takeaway", <<>>),
     created_at |-> created_at,
     publisher |-> Get(analysis, "publisher", it.feed_name),
     markets_impacted |-> Get(analysis, "markets_impacted", <<>>)]

(***************************************************************************)
(* load_all_items: ORDER BY created_at DESC LIMIT 200.  SQL leaves the     *)
(* order of rows with equal created_at open; tie is the order the engine   *)
(* takes among them (by rowid, ascending or descending).                   *)
(***************************************************************************)
TieOrders == {"rowid_asc", "rowid_desc"}

\* ORDER BY created_at ASC
Before_ascending(rows, i, j, tie) ==
    \/ rows[i].created_at < rows[j].created_at
    \/ /\ rows[i].created_at = rows[j].created_at
       /\ IF tie = "rowid_asc" THEN i < j ELSE i > j

Before(rows, i, j, tie) ==
    \/ rows[i].created_at > rows[j].created_at
    \/ /\ rows[i].created_at = rows[j].created_at
       /\ IF tie = "rowid_asc" THEN i < j ELSE i > j

\* the rowids in the order of the result
OrderBy(rows, tie) ==
    LET rank == [i \in DOMAIN rows |->
                    1 + Cardinality({j \in DOMAIN rows : Before(rows, j, i, tie)})] \o <<>>
    IN  [k \in 1..Len(rows) |-> CHOOSE i \in DOMAIN rows : rank[i] = k] \o <<>>

Item(r) ==
    [id |-> r.id, feed_name |-> r.feed_name, title |-> r.title, link |-> r.link,
     published |-> r.published, summary |-> r.summary, ai_summary |-> r.ai_summary,
     sentiment |-> r.sentiment, score |-> r.score, created_at |-> r.created_at,
     priority |-> r.priority, publication_freshness |-> r.publication_freshness,
     market_bias |-> r.market_bias, time_horizon |-> r.time_horizon,
     confidence_level |-> r.confidence_level,
     key_links |-> json_loads_column(r.key_links),
     investor_takeaway |-> r.investor_takeaway,
     publisher |-> r.publisher,
     markets_impacted |-> json_loads_column(r.markets_impacted)]

load_all_items(rows, tie) ==
    LET order == OrderBy(rows, tie)
    IN  [k \in 1..Min(Len(rows), LoadLimit) |-> Item(rows[order[k]])]

\* build_daily_summary: the lines of the first ten items
build_daily_summary(items) ==
    LET top == Take(items, SummaryTop)
    IN  [k \in DOMAIN top |->
            [emo |-> IF top[k].sentiment = <<"positive">> THEN "green"
                     ELSE IF top[k].sentiment = <<"negative">> THEN "red"
                     ELSE "white",
             feed_name |-> top[k].feed_name, title |-> top[k].title,
             ai_summary |-> top[k].ai_summary, link |-> top[k].link]]

(***************************************************************************)
(* The inputs of the model: the configured feeds, what a feed may serve,   *)
(* what the model may reply.                                               *)
(***************************************************************************)
FeedNames == << <<"Reuters">>, <<"CNBC">>, <<"Zonebourse">>, <<"Boursorama">> >>

FEEDS == SubSeq(FeedNames, 1, Min(NumFeeds, Len(FeedNames)))

Entry(title, link, summary) ==
    [title |-> title, link |-> link, summary |-> <<>>, description |-> summary,
     published |-> <<>>, updated |-> <<"2026">>]

EntryFed   == Entry(<<"Fed", " ", "cuts">>, <<"u1">>, <<"extrait">>)
EntryFedWs == Entry(<<" ", "Fed", "\t", " ", "cuts">>, <<"u1", "\n">>, <<>>)
EntryBlank == Entry(<<" ">>, <<"u3">>, <<>>)
EntryOil   == Entry(<<"Oil">>, <<"u2">>, <<>>)

FeedContents ==
    { <<EntryFed, EntryFedWs, EntryOil>>, <<EntryBlank, EntryOil>> }

\* feeds of up to MAX_ITEMS_PER_FEED + MaxExtra entries: entry i is EntryAt(i),
\* but at the positions of one subset of DropPositions, where it lacks its
\* title or its link in one of the ways of Lacks
FeedLengths ==
    (0..MaxExtra) \cup ((MAX_ITEMS_PER_FEED - 1)..(MAX_ITEMS_PER_FEED + MaxExtra))

DropPositions ==
    {1, MAX_ITEMS_PER_FEED - 1, MAX_ITEMS_PER_FEED, MAX_ITEMS_PER_FEED + 1}

Lacks == {"no_title", "blank_title", "no_link", "blank_link"}

EntryAt(i) ==
    Entry(<<"t", ToString(i), "\n">>, <<" ", "u", ToString(i)>>, <<>>)

EntryLacking(i, lack) ==
    Entry(IF lack = "no_title" THEN <<>>
          ELSE IF lack = "blank_title" THEN <<" ", "\t">>
          ELSE <<"t", ToString(i)>>,
          IF lack = "no_link" THEN <<>>
          ELSE IF lack = "blank_link" THEN <<"\n">>
          ELSE <<"u", ToString(i)>>,
          <<"extrait">>)

LongFeedContents ==
    { [i \in 1..n |-> IF i \in drop THEN EntryLacking(i, lack) ELSE EntryAt(i)] :
        <<n, drop, lack>> \in FeedLengths \X (SUBSET DropPositions) \X Lacks }

\* feeds of two entries whose title and link are texts of one or two
\* characters, the character | among them
PipeTexts ==
    {<<a>> : a \in {"a", "|"}} \cup {<<a, b>> : <<a, b>> \in {"a", "|"} \X {"a", "|"}}

PipeEntries == {Entry(t, l, <<>>) : <<t, l>> \in PipeTexts \X PipeTexts}

PipeFeedContents == {<<e1, e2>> : <<e1, e2>> \in PipeEntries \X PipeEntries}

\* what the pipeline below lets the model reply
Replies ==
    { <<" ", "Indisponible", "\n">>,
      <<"Voici", " ", "{", "score:2", ",", "sentiment:Positive", ",", "priority:HIGH", "}">> }

\* replies without a brace-delimited block
TextReplies ==
    { <<>>, <<" ">>, <<"\n", "\t">>, <<"Indisponible">>, <<" ", "Indisponible", "\n">>,
      <<"Pas", " ", " ", "de", " ", "JSON", " ">>,
      <<"{", "score:2">>, <<"score:2", "}">>, <<"}", "score:2", "{">> }

\* replies whose first brace-delimited block is no JSON
BadBlockReplies ==
    { <<"{", "x", "}">>,
      <<"{", "score:2", "score:3", "}">>,
      <<"{", "score:2", ",", "}">>,
      <<"{", ",", "score:2", "}">>,
      <<" ", "{", "{", "score:2", "}", "}", " ">>,
      <<"Voici", "{", "x", "}", "{", "score:2", "}">>,
      <<"{", "sentiment:Positive", ",", "x", "}", "\n">> }

\* replies whose first brace-delimited block is a JSON object
JsonReplies ==
    {<<"{", "}">>, <<" ", "{", " ", "}", "x">>}
    \cup {<<"{", m, "}">> : m \in MemberLexemes}
    \cup {<<"Voici", " ", "{", " ", m[1], ",", "\n", m[2], "}", " ", "fin", "}">> :
             m \in MemberLexemes \X MemberLexemes}

AllReplies == TextReplies \cup BadBlockReplies \cup JsonReplies

(***************************************************************************)
(* State.                                                                  *)
(***************************************************************************)
VARIABLES
    out_dir,        \* the directory OUT_DIR exists
    db_file,        \* the file DB_PATH exists, with its table
    store,          \* the rows of the table items
    artifacts,      \* the report files that exist
    items_json,     \* the content of ITEMS_JSON_PATH
    daily_summary,  \* the content of DAILY_SUMMARY_PATH
    now,            \* the wall clock
    run,            \* the number of the current run of main
    pc,             \* where main is
    exit_cause,     \* why the run ended: "", "credential", "storage", "end"
    feed_idx,       \* the feed main is at
    items,          \* the candidates of that feed
    item_idx,       \* the candidate main is at
    reply,          \* the outcome of the last service call of this run
    analysis,       \* the analysis of that candidate
    new_count,
    io,             \* the kinds of access this run has made
    calls,          \* the fingerprints analyze_with_openai was called for, in order
    lost,           \* those whose row save_item then failed to store
    run_calls,      \* those of this run
    run_failed,     \* the fingerprints whose annotation call raised in this run
    run_saved,      \* the fingerprints this run has stored
    fetched,        \* what each feed returned in this run
    prev            \* how the previous run ended

vars == <<out_dir, db_file, store, artifacts, items_json, daily_summary, now, run,
          pc, exit_cause, feed_idx, items, item_idx, reply, analysis, new_count,
          io, calls, lost, run_calls, run_failed, run_saved, fetched, prev>>

world == <<out_dir, db_file, store, artifacts, items_json, daily_summary, now>>

NoReply == [raised |-> FALSE, text |-> <<>>]

NoFetch == [ok |-> FALSE, entries |-> <<>>]

NoRun == [ended |-> FALSE, cause |-> "", fetched |-> <<>>, store |-> <<>>,
          failed |-> {}]

Init ==
    /\ out_dir = FALSE
    /\ db_file = FALSE
    /\ store = <<>>
    /\ artifacts = {}
    /\ items_json = <<>>
    /\ daily_summary = <<>>
    /\ now = 0
    /\ run = 1
    /\ pc = "ensure_out_dir"
    /\ exit_cause = ""
    /\ feed_idx = 0
    /\ items = <<>>
    /\ item_idx = 0
    /\ reply = NoReply
    /\ analysis = <<>>
    /\ new_count = 0
    /\ io = {}
    /\ calls = <<>>
    /\ lost = <<>>
    /\ run_calls = <<>>
    /\ run_failed = {}
    /\ run_saved = {}
    /\ fetched = <<>>
    /\ prev = NoRun

(***************************************************************************)
(* main, step by step.                                                     *)
(***************************************************************************)
\* ensure_out_dir()
EnsureOutDir ==
    /\ pc = "ensure_out_dir"
    /\ out_dir' = TRUE
    /\ io' = io \cup {"makedirs"}
    /\ pc' = "init_db"
    /\ UNCHANGED <<db_file, store, artifacts, items_json, daily_summary, now, run,
                   exit_cause, feed_idx, items, item_idx, reply, analysis, new_count,
                   calls, lost, run_calls, run_failed, run_saved, fetched, prev>>

\* init_db(): creates the file and the table when they are missing
InitDb ==
    /\ pc = "init_db"
    /\ db_file' = TRUE
    /\ io' = io \cup {"db"}
    /\ pc' = "get_api_key"
    /\ UNCHANGED <<out_dir, store, artifacts, items_json, daily_summary, now, run,
                   exit_cause, feed_idx, items, item_idx, reply, analysis, new_count,
                   calls, lost, run_calls, run_failed, run_saved, fetched, prev>>

\* api_key = get_api_key(); the RuntimeError is not caught: main ends there
GetApiKey ==
    /\ pc = "get_api_key"
    /\ \E environ \in Environments :
          /\ io' = IF environ.env_set /\ environ.env_val # <<>> THEN io
                   ELSE IF environ.dotenv_exists THEN io \cup {"dotenv"} ELSE io
          /\ IF get_api_key(environ).ok
             THEN pc' = "connect" /\ exit_cause' = exit_cause
             ELSE pc' = "aborted" /\ exit_cause' = "credential"
    /\ UNCHANGED <<world, run, feed_idx, items, item_idx, reply, analysis, new_count,
                   calls, lost, run_calls, run_failed, run_saved, fetched, prev>>

\* client = OpenAI(...); conn = sqlite3.connect(DB_PATH); new_count = 0
Connect ==
    /\ pc = "connect"
    /\ io' = io \cup {"db"}
    /\ new_count' = 0
    /\ feed_idx' = 1
    /\ pc' = IF FEEDS = <<>> THEN "report" ELSE "fetch"
    /\ UNCHANGED <<world, run, exit_cause, items, item_idx, reply, analysis,
                   calls, lost, run_calls, run_failed, run_saved, fetched, prev>>

\* where the loop over the feeds goes after feed i
AfterFeed(i) == IF i < Len(FEEDS) THEN "fetch" ELSE "report"

\* where the loop over the items goes after item k of its, or at its start (k = 0)
AfterItem(its, k) == IF k < Len(its) THEN "seen" ELSE "sleep"

\* items = fetch_feed(feed_name, url) returned, the feed holding one of contents
Fetch(contents) ==
    /\ pc = "fetch"
    /\ \E entries \in contents :
          /\ items' = fetch_feed(FEEDS[feed_idx], entries)
          /\ fetched' = Append(fetched, [ok |-> TRUE, entries |-> entries])
    /\ io' = io \cup {"feed"}
    /\ item_idx' = 1
    /\ pc' = AfterItem(items', 0)
    /\ UNCHANGED <<world, run, exit_cause, feed_idx, reply, analysis, new_count,
                   calls, lost, run_calls, run_failed, run_saved, prev>>

FetchOk == Fetch(FeedContents)

\* the exception of fetch_feed left uncaught
FetchFail_uncaught ==
    /\ pc = "fetch"
    /\ fetched' = Append(fetched, NoFetch)
    /\ io' = io \cup {"feed"}
    /\ pc' = "aborted"
    /\ exit_cause' = "feed"
    /\ UNCHANGED <<world, run, feed_idx, items, item_idx, reply, analysis, new_count,
                   calls, lost, run_calls, run_failed, run_saved, prev>>

\* fetch_feed raised: except Exception ... continue
FetchFail ==
    /\ pc = "fetch"
    /\ fetched' = Append(fetched, NoFetch)
    /\ io' = io \cup {"feed"}
    /\ items' = <<>>
    /\ item_idx' = 0
    /\ feed_idx' = feed_idx + 1
    /\ pc' = AfterFeed(feed_idx)
    /\ exit_cause' = exit_cause
    /\ UNCHANGED <<world, run, reply, analysis, new_count,
                   calls, lost, run_calls, run_failed, run_saved, prev>>

\* if seen(conn, it["id"]): continue
SeenStep ==
    /\ pc = "seen"
    /\ io' = io \cup {"db"}
    /\ IF seen(store, items[item_idx].id)
       THEN /\ pc' = AfterItem(items, item_idx)
            /\ item_idx' = item_idx + 1
       ELSE /\ pc' = "analyze"
            /\ item_idx' = item_idx
    /\ UNCHANGED <<world, run, exit_cause, feed_idx, items, reply, analysis, new_count,
                   calls, lost, run_calls, run_failed, run_saved, fetched, prev>>

\* the fault caught around the item, the loop going on with the next one
StorageFault_isolated ==
    /\ pc \in {"seen", "save"}
    /\ io' = io \cup {"db"}
    /\ pc' = AfterItem(items, item_idx)
    /\ item_idx' = item_idx + 1
    /\ exit_cause' = "storage"
    /\ lost' = IF pc = "save" THEN Append(lost, items[item_idx].id) ELSE lost
    /\ UNCHANGED <<world, run, feed_idx, items, reply, analysis, new_count,
                   calls, run_calls, run_failed, run_saved, fetched, prev>>

\* a storage fault raised by seen or by save_item is caught nowhere
StorageFault ==
    /\ pc \in {"seen", "save"}
    /\ io' = io \cup {"db"}
    /\ pc' = "aborted"
    /\ exit_cause' = "storage"
    /\ lost' = IF pc = "save" THEN Append(lost, items[item_idx].id) ELSE lost
    /\ UNCHANGED <<world, run, feed_idx, items, item_idx, reply, analysis, new_count,
                   calls, run_calls, run_failed, run_saved, fetched, prev>>

\* analysis = analyze_with_openai(client, it), the service having replied
Analyze(replies) ==
    /\ pc = "analyze"
    /\ \E text \in replies :
          /\ reply' = [raised |-> FALSE, text |-> text]
          /\ analysis' = analyze_with_openai(items[item_idx], text)
    /\ io' = io \cup {"openai"}
    /\ calls' = Append(calls, items[item_idx].id)
    /\ lost' = lost
    /\ run_calls' = Append(run_calls, items[item_idx].id)
    /\ pc' = "save"
    /\ UNCHANGED <<world, run, exit_cause, feed_idx, items, item_idx, new_count,
                   run_failed, run_saved, fetched, prev>>

AnalyzeOk == Analyze(Replies)

\* the handler skipping the item instead of storing it with the defaults
AnalyzeFail_skip ==
    /\ pc = "analyze"
    /\ reply' = [raised |-> TRUE, text |-> <<>>]
    /\ io' = io \cup {"openai"}
    /\ calls' = Append(calls, items[item_idx].id)
    /\ run_calls' = Append(run_calls, items[item_idx].id)
    /\ run_failed' = run_failed \cup {items[item_idx].id}
    /\ pc' = AfterItem(items, item_idx)
    /\ item_idx' = item_idx + 1
    /\ UNCHANGED <<world, run, exit_cause, feed_idx, items, analysis, new_count,
                   lost, run_saved, fetched, prev>>

\* analyze_with_openai raised: except Exception ... analysis = {}
AnalyzeFail ==
    /\ pc = "analyze"
    /\ reply' = [raised |-> TRUE, text |-> <<>>]
    /\ analysis' = <<>>
    /\ io' = io \cup {"openai"}
    /\ calls' = Append(calls, items[item_idx].id)
    /\ lost' = lost
    /\ run_calls' = Append(run_calls, items[item_idx].id)
    /\ run_failed' = run_failed \cup {items[item_idx].id}
    /\ pc' = "save"
    /\ exit_cause' = exit_cause
    /\ UNCHANGED <<world, run, feed_idx, items, item_idx, new_count,
                   run_saved, fetched, prev>>

\* row = {...}; save_item(conn, row); new_count += 1, the clock having advanced
\* by one of ticks since it was last read
Save(ticks) ==
    /\ pc = "save"
    /\ \E tick \in ticks : now' = now + tick
    /\ store' = save_item(store, Row(items[item_idx], analysis, now'))
    /\ io' = io \cup {"db"}
    /\ new_count' = new_count + 1
    /\ run_saved' = run_saved \cup {items[item_idx].id}
    /\ analysis' = <<>>
    /\ pc' = AfterItem(items, item_idx)
    /\ item_idx' = item_idx + 1
    /\ UNCHANGED <<out_dir, db_file, artifacts, items_json, daily_summary, run,
                   exit_cause, feed_idx, items, reply, calls, lost, run_calls,
                   run_failed, fetched, prev>>

SaveStep == Save({1})

\* time.sleep(REQUEST_DELAY_SEC), the last statement of the loop over the feeds
Sleep ==
    /\ pc = "sleep"
    /\ feed_idx' = feed_idx + 1
    /\ pc' = AfterFeed(feed_idx)
    /\ items' = <<>>
    /\ item_idx' = 0
    /\ UNCHANGED <<world, run, exit_cause, reply, analysis, new_count, io,
                   calls, lost, run_calls, run_failed, run_saved, fetched, prev>>

\* conn.close(); all_items = load_all_items(); the three report files
Report ==
    /\ pc = "report"
    /\ \E tie \in TieOrders :
          /\ items_json' = load_all_items(store, tie)
          /\ daily_summary' = build_daily_summary(items_json')
    /\ artifacts' = artifacts \cup {"items.json", "dashboard.html", "daily_summary.txt"}
    /\ io' = io \cup {"db", "report"}
    /\ pc' = "done"
    /\ exit_cause' = "end"
    /\ UNCHANGED <<out_dir, db_file, store, now, run, feed_idx, items, item_idx,
                   reply, analysis, new_count, calls, lost, run_calls, run_failed, run_saved,
                   fetched, prev>>

\* the next invocation of the program
StartRun ==
    /\ pc \in {"done", "aborted"}
    /\ run < MaxRuns
    /\ run' = run + 1
    /\ prev' = [ended |-> pc = "done", cause |-> exit_cause, fetched |-> fetched,
                store |-> store, failed |-> run_failed]
    /\ pc' = "ensure_out_dir"
    /\ exit_cause' = ""
    /\ feed_idx' = 0
    /\ items' = <<>>
    /\ item_idx' = 0
    /\ reply' = NoReply
    /\ analysis' = <<>>
    /\ new_count' = 0
    /\ io' = {}
    /\ run_calls' = <<>>
    /\ run_failed' = {}
    /\ run_saved' = {}
    /\ fetched' = <<>>
    /\ UNCHANGED <<world, calls, lost>>

Next ==
    \/ EnsureOutDir
    \/ InitDb
    \/ GetApiKey
    \/ Connect
    \/ FetchOk
    \/ FetchFail
    \/ SeenStep
    \/ StorageFault
    \/ AnalyzeOk
    \/ AnalyzeFail
    \/ SaveStep
    \/ Sleep
    \/ Report
    \/ StartRun

Spec == Init /\ [][Next]_vars

(***************************************************************************)
(* The annotation of one candidate, over every reply of AllReplies: main   *)
(* at its first call of analyze_with_openai, the store still empty.        *)
(***************************************************************************)
InitAnnotate ==
    /\ out_dir = TRUE
    /\ db_file = TRUE
    /\ store = <<>>
    /\ artifacts = {}
    /\ items_json = <<>>
    /\ daily_summary = <<>>
    /\ now = 0
    /\ run = 1
    /\ pc = "analyze"
    /\ exit_cause = ""
    /\ feed_idx = 1
    /\ \E entries \in FeedContents :
          /\ items = fetch_feed(FEEDS[1], entries)
          /\ fetched = <<[ok |-> TRUE, entries |-> entries]>>
    /\ item_idx = 1
    /\ reply = NoReply
    /\ analysis = <<>>
    /\ new_count = 0
    /\ io = {"makedirs", "db", "feed"}
    /\ calls = <<>>
    /\ lost = <<>>
    /\ run_calls = <<>>
    /\ run_failed = {}
    /\ run_saved = {}
    /\ prev = NoRun

AnalyzeAny == Analyze(AllReplies)

NextAnnotate ==
    \/ AnalyzeAny
    \/ AnalyzeFail
    \/ SaveStep

SpecAnnotate == InitAnnotate /\ [][NextAnnotate]_vars

(***************************************************************************)
(* The report stage over stores of up to LoadLimit + MaxExtra rows: main   *)
(* at conn.close() of a run whose feeds all failed, the store filled by    *)
(* earlier runs.  Row i was created at (i * step) % modulus.               *)
(***************************************************************************)
StoreSizes == (0..MaxExtra) \cup ((LoadLimit - 1)..(LoadLimit + MaxExtra))

ClockSteps == {0, 1, 2, 7, 210}

ClockModuli == {3, 200, 211}

OldCandidate(i) ==
    [feed_name |-> FeedNames[1], title |-> <<"n", ToString(i)>>, link |-> <<"u1">>,
     summary |-> <<>>, published |-> <<>>,
     id |-> stable_id(FeedNames[1], <<"n", ToString(i)>>, <<"u1">>)]

OldStore(n, step, modulus) ==
    [i \in 1..n |-> StoredRow(Row(OldCandidate(i), <<>>, (i * step) % modulus))]

InitLoad ==
    /\ out_dir = TRUE
    /\ db_file = TRUE
    /\ \E n \in StoreSizes, step \in ClockSteps, modulus \in ClockModuli :
          /\ store = OldStore(n, step, modulus)
          /\ now = modulus
    /\ artifacts = {}
    /\ items_json = <<>>
    /\ daily_summary = <<>>
    /\ run = MaxRuns
    /\ pc = "report"
    /\ exit_cause = ""
    /\ feed_idx = Len(FEEDS) + 1
    /\ items = <<>>
    /\ item_idx = 0
    /\ reply = NoReply
    /\ analysis = <<>>
    /\ new_count = 0
    /\ io = {"makedirs", "db", "feed"}
    /\ calls = <<>>
    /\ lost = <<>>
    /\ run_calls = <<>>
    /\ run_failed = {}
    /\ run_saved = {}
    /\ fetched = [i \in 1..Len(FEEDS) |-> NoFetch]
    /\ prev = NoRun

NextLoad == Report

SpecLoad == InitLoad /\ [][NextLoad]_vars

(***************************************************************************)
(* The first feed of a first run over the feeds of LongFeedContents: main  *)
(* at its first call of fetch_feed, the store still empty, every service   *)
(* call failing.                                                           *)
(***************************************************************************)
InitFetch ==
    /\ out_dir = TRUE
    /\ db_file = TRUE
    /\ store = <<>>
    /\ artifacts = {}
    /\ items_json = <<>>
    /\ daily_summary = <<>>
    /\ now = 0
    /\ run = 1
    /\ pc = "fetch"
    /\ exit_cause = ""
    /\ feed_idx = 1
    /\ items = <<>>
    /\ item_idx = 0
    /\ reply = NoReply
    /\ analysis = <<>>
    /\ new_count = 0
    /\ io = {"makedirs", "db"}
    /\ calls = <<>>
    /\ lost = <<>>
    /\ run_calls = <<>>
    /\ run_failed = {}
    /\ run_saved = {}
    /\ fetched = <<>>
    /\ prev = NoRun

FetchLong == Fetch(LongFeedContents)

NextFetch ==
    \/ FetchLong
    \/ SeenStep
    \/ AnalyzeFail
    \/ SaveStep

SpecFetch == InitFetch /\ [][NextFetch]_vars

(***************************************************************************)
(* A run over a store of up to LoadLimit + MaxExtra rows of earlier runs,  *)
(* from its first fetch to its report, every service call failing.  The    *)
(* clock never goes back: the earlier rows were created one per tick, or   *)
(* all at one reading, and a row of this run is created at the reading of  *)
(* the row before it or one tick later.                                    *)
(***************************************************************************)
InitSnapshot ==
    /\ out_dir = TRUE
    /\ db_file = TRUE
    /\ \E n \in StoreSizes, step \in {0, 1} :
          /\ store = OldStore(n, step, LoadLimit + MaxExtra + 1)
          /\ now = n * step
    /\ artifacts = {}
    /\ items_json = <<>>
    /\ daily_summary = <<>>
    /\ run = MaxRuns
    /\ pc = "fetch"
    /\ exit_cause = ""
    /\ feed_idx = 1
    /\ items = <<>>
    /\ item_idx = 0
    /\ reply = NoReply
    /\ analysis = <<>>
    /\ new_count = 0
    /\ io = {"makedirs", "db"}
    /\ calls = <<>>
    /\ lost = <<>>
    /\ run_calls = <<>>
    /\ run_failed = {}
    /\ run_saved = {}
    /\ fetched = <<>>
    /\ prev = [ended |-> TRUE, cause |-> "end", fetched |-> <<>>, store |-> store,
               failed |-> {}]

SaveAnyClock == Save({0, 1})

NextSnapshot ==
    \/ FetchOk
    \/ FetchFail
    \/ SeenStep
    \/ AnalyzeFail
    \/ SaveAnyClock
    \/ Sleep
    \/ Report

SpecSnapshot == InitSnapshot /\ [][NextSnapshot]_vars

\* the same over the feeds of PipeFeedContents
FetchPipes == Fetch(PipeFeedContents)

NextFingerprint ==
    \/ FetchPipes
    \/ SeenStep
    \/ AnalyzeFail
    \/ SaveStep

SpecFingerprint == InitFetch /\ [][NextFingerprint]_vars

(***************************************************************************)
(* Properties.                                                             *)
(***************************************************************************)
HasRow(rows, id) == \E i \in DOMAIN rows : rows[i].id = id

RowOf(rows, id) == rows[CHOOSE i \in DOMAIN rows : rows[i].id = id]

Ids(rows) == {rows[i].id : i \in DOMAIN rows}

Count(xs, x) == Cardinality({i \in DOMAIN xs : xs[i] = x})

NoDuplicates(xs) == \A i, j \in DOMAIN xs : xs[i] = xs[j] => i = j

\* the candidates feed i gave this run, by what the feed returned
FeedCandidates(i) ==
    IF fetched[i].ok THEN fetch_feed(FEEDS[i], fetched[i].entries) ELSE <<>>

RunCandidateIds == UNION {Ids(FeedCandidates(i)) : i \in DOMAIN fetched}

AllFeedsFetched == Len(fetched) = Len(FEEDS)

\* C1 (as stated): analyze_with_openai is invoked only for an item that has
\* no row, and over all runs it is called at most once per fingerprint.
C1_AtMostOncePerFingerprint ==
    /\ pc = "analyze" => ~HasRow(store, items[item_idx].id)
    /\ NoDuplicates(calls)

\* C1 (amended): analyze_with_openai is invoked only for an item that has no
\* row; it is called at most once per fingerprint within a run, and over all
\* runs at most once plus once for every earlier call whose row save_item
\* failed to store (a storage fault, which ends that run).
C1_OncePerStoredFingerprint ==
    /\ pc = "analyze" => ~HasRow(store, items[item_idx].id)
    /\ NoDuplicates(run_calls)
    /\ \A k \in DOMAIN calls : Count(calls, calls[k]) <= 1 + Count(lost, calls[k])
    /\ \A id \in Ids(store) : Count(calls, id) = 1 + Count(lost, id)

\* a second run met again, and skipped, a fingerprint stored by the first,
\* having met it twice in one feed
C1_Witness ==
    /\ run = 2
    /\ pc = "done"
    /\ lost = <<>>
    /\ \E i \in DOMAIN fetched :
          /\ Len(fetched[i].entries) > Cardinality(Ids(FeedCandidates(i)))
          /\ \E id \in Ids(FeedCandidates(i)) :
                /\ HasRow(prev.store, id)
                /\ Count(calls, id) = 1
                /\ Count(run_calls, id) = 0

\* C2: a run that follows a completed run, every feed returning what it
\* returned then, creates no row, calls the annotator for nothing and leaves
\* the store as it was.
C2_IdempotentIngestion ==
    (pc = "done" /\ prev.ended /\ fetched = prev.fetched)
        => /\ new_count = 0
           /\ run_calls = <<>>
           /\ run_saved = {}
           /\ store = prev.store
           /\ Len(store) = Len(prev.store)

\* the second of two runs with the same feed content, the first having
\* stored rows
C2_Witness ==
    /\ pc = "done"
    /\ prev.ended
    /\ fetched = prev.fetched
    /\ \E i \in DOMAIN fetched : fetched[i].ok
    /\ Len(prev.store) >= 2
    /\ new_count = 0

IsDefaultAnnotation(r) ==
    /\ r.sentiment = <<"neutral">>
    /\ r.score = 0
    /\ r.priority = <<"low">>
    /\ r.ai_summary = <<>>
    /\ r.publisher = r.feed_name

RunRowsOf(i) ==
    {k \in DOMAIN store : store[k].id \in run_saved /\ store[k].feed_name = FEEDS[i]}

\* C4: a feed whose fetch fails gives no candidate and no row and does not
\* end the run: main goes on to the next feed, or after the last feed to the
\* report, which writes the snapshot, the dashboard and the digest.
C4_FeedFailureIsolated ==
    /\ \A i \in DOMAIN fetched :
          ~fetched[i].ok =>
             /\ RunRowsOf(i) = {}
             /\ IF i < Len(FEEDS)
                THEN Len(fetched) > i \/ (pc = "fetch" /\ feed_idx = i + 1)
                ELSE pc \in {"report", "done"}
    /\ pc = "done" =>
          /\ AllFeedsFetched
          /\ \A i \in DOMAIN fetched : ~fetched[i].ok => FeedCandidates(i) = <<>>
          /\ {"items.json", "dashboard.html", "daily_summary.txt"} \subseteq artifacts
          /\ "report" \in io

\* a run ended whose first feed failed and whose next feed gave rows
C4_Witness ==
    /\ pc = "done"
    /\ run = 1
    /\ ~fetched[1].ok
    /\ fetched[2].ok
    /\ RunRowsOf(2) # {}
    /\ items_json # <<>>

\* C5 (as stated): when get_api_key fails, the run has made no storage and
\* no network access: the output directory was not created, the store file
\* was not opened or created, no feed or annotation request was made.
C5_CredentialCheckedBeforeAnyAccess ==
    (pc = "aborted" /\ exit_cause = "credential") =>
        /\ io \cap {"makedirs", "db", "feed", "openai"} = {}
        /\ run = 1 => (~out_dir /\ ~db_file)

\* what the code does there: the directory and the store file exist, no
\* request has been made
C5_Observed ==
    (pc = "aborted" /\ exit_cause = "credential") =>
        /\ {"makedirs", "db"} \subseteq io
        /\ out_dir /\ db_file
        /\ io \cap {"feed", "openai", "report"} = {}
        /\ fetched = <<>> /\ run_calls = <<>>

\* C6 (as stated): an item whose annotation call raised in a run is
\* annotated again by the next run that fetches it.
C6_FailedItemsRetried ==
    pc = "done" =>
        \A id \in prev.failed : id \in RunCandidateIds => Count(run_calls, id) > 0

\* C6 (amended): an item whose annotation call raised is stored all the same
\* (unless save_item raised in its turn) and, once stored, is not annotated
\* by the next run; what the next run annotates is every candidate it
\* fetches that had no row when it started (the entries of a feed that
\* failed the run before among them).
C6_OnlyUnstoredItemsRetried ==
    /\ \A id \in prev.failed : HasRow(prev.store, id) => Count(run_calls, id) = 0
    /\ \A id \in prev.failed : Count(lost, id) = 0 => HasRow(prev.store, id)
    /\ pc = "done" =>
          \A id \in RunCandidateIds :
             (Count(run_calls, id) > 0) <=> ~HasRow(prev.store, id)

\* the second run fetched an item whose annotation raised in the first and
\* skipped it, and annotated the items of a feed that had failed in the first
C6_Witness ==
    /\ pc = "done"
    /\ run = 2
    /\ \E id \in prev.failed :
          /\ id \in RunCandidateIds
          /\ Count(run_calls, id) = 0
          /\ IsDefaultAnnotation(RowOf(store, id))
    /\ prev.ended
    /\ \E i \in DOMAIN fetched :
          /\ ~prev.fetched[i].ok
          /\ fetched[i].ok
          /\ \E id \in Ids(FeedCandidates(i)) : Count(run_calls, id) = 1

\* the last service call of this run has its row, the last of the store
LastCallStored ==
    /\ run_calls # <<>>
    /\ pc \notin {"save", "aborted"}

LastRow == store[Len(store)]

Unparseable(text) == text \in TextReplies \cup BadBlockReplies

\* the member that gives the reply its score ("" when it has none)
ScoreLexeme(text) ==
    LET at == {i \in DOMAIN text :
                  text[i] \in MemberLexemes /\ Member(text[i]).key = "score"}
    IN  IF at = {} THEN ""
        ELSE text[CHOOSE i \in at : \A j \in at : j <= i]

\* scores int() rejects, or reads as a number outside the domain
RejectedScores ==
    {"score:3", "score:-3", "score:7.5", "score:'abc'", "score:null", "score:[]"}

\* C7: every stored row has its score in {-2,-1,0,1,2}; a failed call, a
\* reply without a parseable block, a missing score, a score int() rejects
\* and a number outside the domain all store 0, and a score int() reads as a
\* number of the domain is stored as that number.
C7_ScoreDomain ==
    /\ \A i \in DOMAIN store : store[i].score \in {0 - 2, 0 - 1, 0, 1, 2}
    /\ LastCallStored =>
          /\ store # <<>>
          /\ LastRow.id = run_calls[Len(run_calls)]
          /\ reply.raised => LastRow.score = 0
          /\ (~reply.raised /\ Unparseable(reply.text)) => LastRow.score = 0
          /\ (~reply.raised /\ reply.text \in JsonReplies) =>
                LET m == ScoreLexeme(reply.text)
                IN  /\ m \in {""} \cup RejectedScores => LastRow.score = 0
                    /\ m = "score:2" => LastRow.score = 2
                    /\ m = "score:-1" => LastRow.score = 0 - 1
                    /\ m = "score:'-2'" => LastRow.score = 0 - 2
                    /\ m \in {"score:1.7", "score:true"} => LastRow.score = 1

\* a row stored from a reply whose score is outside the domain
C7_Witness ==
    /\ LastCallStored
    /\ ~reply.raised
    /\ reply.text \in JsonReplies
    /\ ScoreLexeme(reply.text) = "score:3"
    /\ LastRow.sentiment = <<"positive">>
    /\ LastRow.score = 0

\* t is text without its leading and trailing whitespace
IsStripOf(t, text) ==
    /\ t # <<>> => (t[1] \notin Whitespace /\ t[Len(t)] \notin Whitespace)
    /\ \E i \in 1..(Len(text) + 1) :
          /\ i + Len(t) - 1 <= Len(text)
          /\ t = SubSeq(text, i, i + Len(t) - 1)
          /\ \A k \in DOMAIN text :
                (k < i \/ k > i + Len(t) - 1) => text[k] \in Whitespace

\* C8 (as stated): a reply without a block, or whose first block does not
\* parse, gives sentiment neutral, score 0 and a non-empty summary equal to
\* the raw reply text.
C8_SummaryIsRawReply ==
    (pc = "save" /\ ~reply.raised /\ Unparseable(reply.text)) =>
        /\ analysis.sentiment = <<"neutral">>
        /\ analysis.score = 0
        /\ analysis.ai_summary # <<>>
        /\ analysis.ai_summary = reply.text

\* C8 (amended): such a reply gives sentiment neutral, score 0 and as summary
\* the reply text without its leading and trailing whitespace (empty when
\* the reply is empty or blank); the row stored takes the default for every
\* other field.
C8_SummaryIsStrippedReply ==
    /\ (pc = "save" /\ ~reply.raised /\ Unparseable(reply.text)) =>
          /\ DOMAIN analysis = {"ai_summary", "sentiment", "score", "bullets"}
          /\ analysis.sentiment = <<"neutral">>
          /\ analysis.score = 0
          /\ IsStripOf(analysis.ai_summary, reply.text)
    /\ (LastCallStored /\ ~reply.raised /\ Unparseable(reply.text)) =>
          /\ store # <<>>
          /\ LastRow.id = run_calls[Len(run_calls)]
          /\ IsStripOf(LastRow.ai_summary, reply.text)
          /\ LastRow.sentiment = <<"neutral">>
          /\ LastRow.score = 0
          /\ LastRow.priority = <<"low">>
          /\ LastRow.publication_freshness = <<"ancien">>
          /\ LastRow.market_bias = <<"neutral">>
          /\ LastRow.time_horizon = <<>>
          /\ LastRow.confidence_level = <<>>
          /\ LastRow.key_links = json_dumps(<<>>)
          /\ LastRow.investor_takeaway = <<>>
          /\ LastRow.publisher = LastRow.feed_name
          /\ LastRow.markets_impacted = json_dumps(<<>>)

\* a row stored from a reply whose first block is no JSON and whose second
\* is, the reply having whitespace around it
C8_Witness ==
    /\ LastCallStored
    /\ ~reply.raised
    /\ reply.text = <<" ", "{", "{", "score:2", "}", "}", " ">>
    /\ LastRow.ai_summary = <<"{", "{", "score:2", "}", "}">>

\* C9: no step changes or removes a row of the store: the rows keep their
\* place and every field, created_at included, and the store only grows.
C9_RowsWriteOnce ==
    [][/\ Len(store') >= Len(store)
       /\ \A i \in DOMAIN store : store'[i] = store[i]
       /\ Ids(store) \subseteq Ids(store')]_vars

\* a second run added rows to those of the first, having met again the
\* entries the first had stored
C9_Witness ==
    /\ run = 2
    /\ pc = "done"
    /\ prev.store # <<>>
    /\ Len(store) > Len(prev.store)
    /\ \E id \in RunCandidateIds : HasRow(prev.store, id)
    /\ \A i \in DOMAIN prev.store : store[i] = prev.store[i]

\* C10: load_all_items gives at most 200 rows of the store, each once, in
\* descending order of created_at, and no row it leaves out is more recent
\* than a row it gives.
C10_CorpusBound ==
    pc = "done" =>
        /\ Len(items_json) <= 200
        /\ Len(items_json) = Min(Len(store), 200)
        /\ \A k \in DOMAIN items_json :
              /\ k > 1 => items_json[k - 1].created_at >= items_json[k].created_at
              /\ HasRow(store, items_json[k].id)
              /\ RowOf(store, items_json[k].id).created_at = items_json[k].created_at
        /\ Cardinality(Ids(items_json)) = Len(items_json)
        /\ \A i \in DOMAIN store :
              store[i].id \notin Ids(items_json) =>
                 store[i].created_at <= items_json[Len(items_json)].created_at

\* the report of a store of more than 200 rows created at different times
C10_Witness ==
    /\ pc = "done"
    /\ Len(store) > 200
    /\ Len(items_json) = 200
    /\ items_json[1].created_at > items_json[200].created_at
    /\ \E i \in DOMAIN store :
          /\ store[i].id \notin Ids(items_json)
          /\ store[i].created_at < items_json[200].created_at

\* the positions of entries whose entry gives a candidate: among the first
\* MAX_ITEMS_PER_FEED, with a title and a link that are not blank
KeptPositions(entries) ==
    {p \in 1..Min(Len(entries), MAX_ITEMS_PER_FEED) :
        /\ \E i \in DOMAIN entries[p].title : entries[p].title[i] \notin Whitespace
        /\ \E i \in DOMAIN entries[p].link : entries[p].link[i] \notin Whitespace}

\* the k-th of them
KthKept(entries, k) ==
    CHOOSE p \in KeptPositions(entries) :
        Cardinality({q \in KeptPositions(entries) : q <= p}) = k

\* t is s with its runs of whitespace made one space and none at its ends
IsNormOf(t, s) ==
    /\ \A i \in DOMAIN t : t[i] \in Whitespace =>
          /\ t[i] = " "
          /\ 1 < i /\ i < Len(t)
          /\ t[i + 1] \notin Whitespace
    /\ SelectSeq(t, LAMBDA l : l \notin Whitespace)
         = SelectSeq(s, LAMBDA l : l \notin Whitespace)

\* C11: fetch_feed returns at most MAX_ITEMS_PER_FEED candidates, in the order
\* of the feed, each with a title and a link that are not empty after
\* normalisation; they are the entries with a title and a link among the first
\* MAX_ITEMS_PER_FEED entries of the feed, one candidate each, and only they
\* get a row: an entry without title or link, or at position
\* MAX_ITEMS_PER_FEED + 1 or later, gives no candidate and no row.
C11_FetchContract ==
    (fetched # <<>> /\ fetched[1].ok) =>
       LET entries == fetched[1].entries
           kept == KeptPositions(entries)
       IN  /\ Len(items) <= MAX_ITEMS_PER_FEED
           /\ Len(items) = Cardinality(kept)
           /\ \A k \in DOMAIN items :
                 LET e == entries[KthKept(entries, k)]
                 IN  /\ items[k].feed_name = FEEDS[1]
                     /\ items[k].title # <<>> /\ IsNormOf(items[k].title, e.title)
                     /\ items[k].link # <<>> /\ IsNormOf(items[k].link, e.link)
           /\ \A r \in DOMAIN store : \E k \in DOMAIN items :
                 /\ store[r].id = items[k].id
                 /\ store[r].title = items[k].title
                 /\ store[r].link = items[k].link
           /\ Len(store) <= Len(items)
           /\ \A p \in DOMAIN entries : p \notin kept =>
                 \A r \in DOMAIN store :
                    ~ IsNormOf(store[r].title, entries[p].title)

\* the feed has MAX_ITEMS_PER_FEED + 1 entries or more, one of the first
\* MAX_ITEMS_PER_FEED lacks its title or link, the one after them lacks
\* nothing, and every candidate has been stored
C11_Witness ==
    /\ fetched # <<>> /\ fetched[1].ok
    /\ Len(fetched[1].entries) > MAX_ITEMS_PER_FEED
    /\ Cardinality(KeptPositions(fetched[1].entries)) = MAX_ITEMS_PER_FEED - 1
    /\ fetched[1].entries[MAX_ITEMS_PER_FEED + 1] = EntryAt(MAX_ITEMS_PER_FEED + 1)
    /\ pc = "sleep"
    /\ Len(store) = MAX_ITEMS_PER_FEED - 1

Triple(c) == <<c.feed_name, c.title, c.link>>

\* C12 (as stated): stable_id is a function of (feed name, title, link), and
\* two candidates with distinct triples never have the same fingerprint.
C12_FingerprintInjective ==
    \A i, j \in DOMAIN items :
       /\ items[i].id = stable_id(items[i].feed_name, items[i].title, items[i].link)
       /\ Triple(items[i]) = Triple(items[j]) => items[i].id = items[j].id
       /\ Triple(items[i]) # Triple(items[j]) => items[i].id # items[j].id

\* what the code gives: equal triples have equal fingerprints, two triples
\* that differ in exactly one of title and link have distinct fingerprints,
\* and of two candidates with the same fingerprint only the first gets a row
C12_Observed ==
    /\ \A i, j \in DOMAIN items :
          /\ items[i].id = stable_id(items[i].feed_name, items[i].title, items[i].link)
          /\ Triple(items[i]) = Triple(items[j]) => items[i].id = items[j].id
          /\ (items[i].title = items[j].title) # (items[i].link = items[j].link)
                => items[i].id # items[j].id
    /\ (pc = "sleep" /\ Len(items) = 2 /\ items[1].id = items[2].id) =>
          /\ Len(store) = 1
          /\ store[1].title = items[1].title /\ store[1].link = items[1].link

\* two entries of one feed with distinct titles and links and one
\* fingerprint, the second skipped as already seen
C12_Collision ==
    /\ pc = "sleep" /\ Len(items) = 2
    /\ Triple(items[1]) # Triple(items[2])
    /\ items[1].id = items[2].id
    /\ Len(store) = 1

\* C13: a storage fault raised by seen or by save_item ends main there: the
\* step of the fault leaves the store and the report files as they were (the
\* rows committed before it remain, the row being written is not stored),
\* this run has not written and will not write its report, and the only step
\* after it is the next invocation of the program, which starts with the
\* same store and the same files and has called the annotator no further.
C13_StorageFaultEndsRun ==
    [][ /\ (exit_cause' = "storage" /\ exit_cause # "storage") =>
              /\ pc \in {"seen", "save"}
              /\ pc' = "aborted"
              /\ world' = world
              /\ "report" \notin io'
              /\ <<feed_idx', item_idx', calls', run_saved'>>
                   = <<feed_idx, item_idx, calls, run_saved>>
        /\ exit_cause = "storage" =>
              /\ pc = "aborted"
              /\ run' = run + 1
              /\ pc' = "ensure_out_dir"
              /\ world' = world
              /\ calls' = calls ]_vars

\* a first run that stored a row, then met a storage fault with an item and
\* a feed still to come, and wrote no report file
C13_Witness ==
    /\ run = 1
    /\ pc = "aborted" /\ exit_cause = "storage"
    /\ run_saved # {} /\ Ids(store) = run_saved
    /\ item_idx < Len(items)
    /\ feed_idx < Len(FEEDS)
    /\ artifacts = {}
    /\ items_json = <<>>

\* the member that gives the reply its value for key ("" when it has none)
KeyLexeme(text, key) ==
    LET at == {i \in DOMAIN text :
                  text[i] \in MemberLexemes /\ Member(text[i]).key = key}
    IN  IF at = {} THEN ""
        ELSE text[CHOOSE i \in at : \A j \in at : j <= i]

\* C14: every stored row has its sentiment in {positive, negative, neutral}
\* and its priority in {critical, high, medium, low}; a failed call, a reply
\* without a parseable block, a missing value, null and a value that is none
\* of these store neutral and low, and a value that is one of them in any case
\* is stored in lower case.
C14_SentimentPriorityDomain ==
    /\ \A i \in DOMAIN store :
          /\ store[i].sentiment \in {<<"positive">>, <<"negative">>, <<"neutral">>}
          /\ store[i].priority \in {<<"critical">>, <<"high">>, <<"medium">>, <<"low">>}
    /\ LastCallStored =>
          /\ store # <<>>
          /\ LastRow.id = run_calls[Len(run_calls)]
          /\ (reply.raised \/ Unparseable(reply.text)) =>
                LastRow.sentiment = <<"neutral">> /\ LastRow.priority = <<"low">>
          /\ (~reply.raised /\ reply.text \in JsonReplies) =>
                LET s == KeyLexeme(reply.text, "sentiment")
                    p == KeyLexeme(reply.text, "priority")
                IN  /\ s \in {"", "sentiment:null", "sentiment:bullish", "sentiment:5"}
                          => LastRow.sentiment = <<"neutral">>
                    /\ s = "sentiment:NEUTRAL" => LastRow.sentiment = <<"neutral">>
                    /\ s = "sentiment:Positive" => LastRow.sentiment = <<"positive">>
                    /\ s = "sentiment:negative" => LastRow.sentiment = <<"negative">>
                    /\ p \in {"", "priority:null", "priority:urgent", "priority:true"}
                          => LastRow.priority = <<"low">>
                    /\ p = "priority:HIGH" => LastRow.priority = <<"high">>
                    /\ p = "priority:Medium" => LastRow.priority = <<"medium">>
                    /\ p = "priority:critical" => LastRow.priority = <<"critical">>

\* a row stored from a reply with a recognised sentiment in capitals and a
\* priority that is none of the four
C14_Witness ==
    /\ LastCallStored
    /\ ~reply.raised
    /\ reply.text \in JsonReplies
    /\ KeyLexeme(reply.text, "sentiment") = "sentiment:Positive"
    /\ KeyLexeme(reply.text, "priority") = "priority:urgent"
    /\ LastRow.sentiment = <<"positive">>
    /\ LastRow.priority = <<"low">>

\* the entries of the reply's list for key (none when the value is no list)
ReplyList(text, key) ==
    IF KeyLexeme(text, key) = "" \/ Member(KeyLexeme(text, key)).typ # "list"
    THEN <<>>
    ELSE Member(KeyLexeme(text, key)).items

IsBlank(s) == \A i \in DOMAIN s : s[i] \in Whitespace

\* C15: an annotation analyze_with_openai returns from a parsed reply has as
\* markets_impacted the first MaxMarkets entries of the reply's list that are
\* not blank, in order and normalised, and as key_links the first MaxKeyLinks
\* entries of the reply's list, normalised; a value that is no list, or no
\* value, gives the empty list, and the row stored holds the same lists.
C15_ListsCapped ==
    /\ (pc = "save" /\ ~reply.raised /\ reply.text \in JsonReplies) =>
          LET markets == SelectSeq(ReplyList(reply.text, "markets_impacted"),
                                   LAMBDA x : ~IsBlank(x))
              links == ReplyList(reply.text, "key_links")
          IN  /\ Len(analysis.markets_impacted) = Min(Len(markets), MaxMarkets)
              /\ Len(analysis.markets_impacted) <= 5
              /\ \A k \in DOMAIN analysis.markets_impacted :
                    /\ analysis.markets_impacted[k] # <<>>
                    /\ IsNormOf(analysis.markets_impacted[k], markets[k])
              /\ Len(analysis.key_links) = Min(Len(links), MaxKeyLinks)
              /\ Len(analysis.key_links) <= 3
              /\ \A k \in DOMAIN analysis.key_links :
                    IsNormOf(analysis.key_links[k], links[k])
              /\ KeyLexeme(reply.text, "markets_impacted") = "markets_impacted:str"
                    => analysis.markets_impacted = <<>>
              /\ KeyLexeme(reply.text, "key_links") = "key_links:null"
                    => analysis.key_links = <<>>
    /\ (LastCallStored /\ ~reply.raised /\ reply.text \in JsonReplies) =>
          LET markets == json_loads_column(LastRow.markets_impacted)
              links == json_loads_column(LastRow.key_links)
          IN  /\ Len(markets) <= 5 /\ \A k \in DOMAIN markets : ~IsBlank(markets[k])
              /\ Len(links) <= 3
              /\ KeyLexeme(reply.text, "markets_impacted") = "markets_impacted:7" =>
                    markets = << <<"Oil">>, <<"USD">>, <<"Nasdaq", " ", "100">>,
                                 <<"Bunds">>, <<"Gold">> >>
              /\ KeyLexeme(reply.text, "key_links") = "key_links:4" =>
                    links = << <<"taux">>, <<>>, <<"Fed", " ", "pivot">> >>

\* an annotation returned for a reply whose list of markets has blank entries
\* among its first five and more than five that are not blank, and whose list
\* of notes has four entries
C15_Witness ==
    /\ pc = "save" /\ ~reply.raised
    /\ reply.text \in JsonReplies
    /\ KeyLexeme(reply.text, "markets_impacted") = "markets_impacted:7"
    /\ KeyLexeme(reply.text, "key_links") = "key_links:4"
    /\ Len(analysis.markets_impacted) = 5
    /\ Len(analysis.key_links) = 3

\* C16 (as stated): main goes from a feed to the fetch of the next one through
\* the pause, one time.sleep(REQUEST_DELAY_SEC), whether the feed was fetched
\* or its fetch failed.
C16_PauseBetweenFeeds ==
    [][ (feed_idx >= 1 /\ feed_idx' = feed_idx + 1 /\ pc' = "fetch") =>
           pc = "sleep" ]_vars

\* what the code gives: the pause follows a feed that was fetched, the last
\* one included, and no pause follows a feed whose fetch failed
C16_Observed ==
    [][ (feed_idx >= 1 /\ feed_idx' = feed_idx + 1) =>
           \/ pc = "sleep" /\ fetched[feed_idx].ok /\ fetched' = fetched
           \/ pc = "fetch" /\ ~fetched'[feed_idx].ok ]_vars

\* the rows this run created
NewRows == {k \in DOMAIN store : store[k].id \in run_saved}

SnapshotIds == {items_json[k].id : k \in DOMAIN items_json}

\* what holds of every run that reached its report: every feed was gone
\* through, the run created at most Len(FEEDS) * MAX_ITEMS_PER_FEED rows, the
\* configured feeds give fewer rows than the load keeps, and no row of this
\* run was created earlier than a row that was there before
RunBounds ==
    /\ AllFeedsFetched
    /\ Cardinality(NewRows) = Cardinality(run_saved)
    /\ Cardinality(NewRows) <= Len(FEEDS) * MAX_ITEMS_PER_FEED
    /\ ConfiguredFeeds * MAX_ITEMS_PER_FEED < LoadLimit
    /\ \A k \in NewRows : \A o \in DOMAIN prev.store :
          prev.store[o].created_at <= store[k].created_at

\* C17 (as stated): every row created during a run is in the snapshot written
\* at the end of that run, the clock being non-decreasing.
C17_NewRowsInSnapshot ==
    pc = "done" =>
       /\ RunBounds
       /\ run_saved \subseteq SnapshotIds

\* C17 (amended): every row created during a run later than every row that
\* was there before is in the snapshot written at the end of that run.
C17_LaterRowsInSnapshot ==
    pc = "done" =>
       /\ RunBounds
       /\ \A k \in NewRows :
             (\A o \in DOMAIN prev.store :
                 prev.store[o].created_at < store[k].created_at)
             => store[k].id \in SnapshotIds

\* a run over a store that already had LoadLimit rows or more created two
\* rows later than all of them, and its snapshot holds both
C17_Witness ==
    /\ pc = "done"
    /\ Len(prev.store) >= LoadLimit
    /\ Cardinality(NewRows) >= 2
    /\ \A k \in NewRows : \A o \in DOMAIN prev.store :
          prev.store[o].created_at < store[k].created_at
    /\ run_saved \subseteq SnapshotIds
    /\ Len(items_json) = LoadLimit

====
